---- MODULE Spec2Model ----
(***************************************************************************)
(* The data lifecycle of the WSB sentiment view (the Home component):      *)
(* the url / maxComments / data / loading / error state, the submit        *)
(* handler fetchSentiment with its two suspension points (await fetch,     *)
(* await res.json()), and the comment filter applied while rendering.      *)
(*                                                                         *)
(* The repository holds the view in two behaviourally different forms:     *)
(*   "page"     src/frontend/wsbsentiment-frontend/src/app/page.tsx        *)
(*              (src/unnamed/part_000 has the same handler and the same    *)
(*              rendering, one line further down)                          *)
(*   "part_001" src/unnamed/part_001 (plain button, catch (e: any),        *)
(*              no comment filter)                                         *)
(* The variable page says which of them is mounted.                        *)
(*                                                                         *)
(* Text that the code inspects character by character (the url, a comment  *)
(* author) is a sequence of one-character strings; text that is only       *)
(* stored and compared (messages, comment bodies) is a string.             *)
(***************************************************************************)
EXTENDS Integers, Sequences, FiniteSets, TLC

VARIABLES page, url, maxComments, data, loading, error, inflight, issued, submits, owner,
          cleared

vars == <<page, url, maxComments, data, loading, error, inflight, issued, submits, owner,
          cleared>>

(* Bounds of the model. *)
MaxRequests == 2
MaxTopComments == 2
MaxSentiment == 100

Pages == {"page", "part_001"}

(***************************************************************************)
(* JavaScript values that reach the error state or are thrown.             *)
(***************************************************************************)
Null == [t |-> "null", v |-> ""]
Undefined == [t |-> "undefined", v |-> ""]
Str(s) == [t |-> "string", v |-> s]
ErrorObj(m) == [t |-> "Error", v |-> m]
ArrayVal == [t |-> "array", v |-> "[object Object]"]

(* String(x) and the ToString used by new Error(x). *)
ToStringJS(x) ==
    CASE x.t = "string" -> x.v
      [] x.t = "null" -> "null"
      [] x.t = "undefined" -> "undefined"
      [] x.t = "Error" -> x.v
      [] x.t = "array" -> x.v

(* Truthiness, as used by the || of line 58. *)
Truthy(x) ==
    CASE x.t = "string" -> x.v # ""
      [] x.t = "null" -> FALSE
      [] x.t = "undefined" -> FALSE
      [] x.t = "Error" -> TRUE
      [] x.t = "array" -> TRUE

(***************************************************************************)
(* String.prototype.includes: scan the start positions left to right.      *)
(***************************************************************************)
RECURSIVE IncludesFrom(_, _, _)
IncludesFrom(s, t, i) ==
    IF i + Len(t) - 1 > Len(s) THEN FALSE
    ELSE IF SubSeq(s, i, i + Len(t) - 1) = t THEN TRUE
    ELSE IncludesFrom(s, t, i + 1)

Includes(s, t) == IncludesFrom(s, t, 1)

RedditCom == <<"r","e","d","d","i","t",".","c","o","m">>

ValidationMessage == "Please enter a valid Reddit post URL"
GenericFailure == "Failed to fetch sentiment"

(* The guard as a test of the first characters only. *)
ValidationFailsStartsWith(u) == SubSeq(u, 1, Len(RedditCom)) # RedditCom

(* line 43: the guard of the early return. *)
ValidationFails(u) == ~Includes(u, RedditCom)

(***************************************************************************)
(* encodeURIComponent: the unreserved characters pass, every other         *)
(* character becomes its percent escape.                                   *)
(***************************************************************************)
Unreserved ==
    {"a","b","c","d","e","f","g","h","i","j","k","l","m","n","o","p","q","r","s","t",
     "u","v","w","x","y","z",
     "A","B","C","D","E","F","G","H","I","J","K","L","M","N","O","P","Q","R","S","T",
     "U","V","W","X","Y","Z","0","1","2","3","4","5","6","7","8","9",
     "-","_",".","!","~","*","'","(",")"}

Escape(c) ==
    CASE c = ":" -> <<"%","3","A">>
      [] c = "/" -> <<"%","2","F">>
      [] c = "?" -> <<"%","3","F">>
      [] c = "&" -> <<"%","2","6">>
      [] c = "=" -> <<"%","3","D">>
      [] c = "%" -> <<"%","2","5">>
      [] c = " " -> <<"%","2","0">>

RECURSIVE encodeURIComponent(_)
encodeURIComponent(s) ==
    IF s = <<>> THEN <<>>
    ELSE (IF Head(s) \in Unreserved THEN <<Head(s)>> ELSE Escape(Head(s)))
         \o encodeURIComponent(Tail(s))

(* The template literal's number to string conversion, for naturals. *)
Digit(d) == <<"0","1","2","3","4","5","6","7","8","9">>[d + 1]

RECURSIVE NumberToString(_)
NumberToString(n) ==
    IF n < 10 THEN <<Digit(n)>>
    ELSE NumberToString(n \div 10) \o <<Digit(n % 10)>>

(* lines 51-55: the query string of the request. *)
QueryString(u, n) ==
    <<"u","r","l","=">> \o encodeURIComponent(u)
    \o <<"&","m","a","x","_","c","o","m","m","e","n","t","s","=">> \o NumberToString(n)

(* line 52 / part_001 line 47: where the request goes. *)
Endpoint(p) ==
    IF p = "page" THEN "http://localhost:8000/analyze_post" ELSE "/api/analyze_post"

(***************************************************************************)
(* The regular expression /mod|bot/i of line 158, as test() runs it: at    *)
(* each start position try "mod", then "bot", comparing letters without    *)
(* regard to case.                                                         *)
(***************************************************************************)
UpperCase ==
    <<"A","B","C","D","E","F","G","H","I","J","K","L","M","N","O","P","Q","R","S","T",
      "U","V","W","X","Y","Z">>

LowerCase ==
    <<"a","b","c","d","e","f","g","h","i","j","k","l","m","n","o","p","q","r","s","t",
      "u","v","w","x","y","z">>

Canonicalize(c) ==
    IF \E i \in 1..Len(UpperCase) : UpperCase[i] = c
    THEN LowerCase[CHOOSE i \in 1..Len(UpperCase) : UpperCase[i] = c]
    ELSE c

MatchesAt(s, i, lit) ==
    /\ i + Len(lit) - 1 <= Len(s)
    /\ \A k \in 1..Len(lit) : Canonicalize(s[i + k - 1]) = Canonicalize(lit[k])

RECURSIVE ModBotTestFrom(_, _)
ModBotTestFrom(s, i) ==
    IF i > Len(s) THEN FALSE
    ELSE IF MatchesAt(s, i, <<"m","o","d">>) THEN TRUE
    ELSE IF MatchesAt(s, i, <<"b","o","t">>) THEN TRUE
    ELSE ModBotTestFrom(s, i + 1)

ModBotTest(s) == ModBotTestFrom(s, 1)

(***************************************************************************)
(* Inputs: what the user can type, what the backend can answer, what the   *)
(* network can throw.                                                      *)
(***************************************************************************)
UrlPost == <<"h","t","t","p",":","/","/","r","e","d","d","i","t",".","c","o","m","/","r","/","a">>
UrlBare == <<"r","e","d","d","i","t",".","c","o","m">>
UrlAmp == <<"r","e","d","d","i","t",".","c","o","m","/","?","a","&","m","a","x","_","c","o","m","m","e","n","t","s","=","9">>
UrlOther == <<"h","t","t","p",":","/","/","e","x","a","m","p","l","e",".","c","o","m">>
UrlCase == <<"R","e","d","d","i","t",".","c","o","m">>

UrlInputs == {<<>>, UrlPost, UrlBare, UrlAmp, UrlOther, UrlCase}

(* Number(e.target.value) of the limit field; 0 is the emptied field. *)
LimitInputs == {0, 10}

(* Sentiment is carried in hundredths: 50 stands for 0.5. *)
Comment(i, a, b, s) == [id |-> i, author |-> a, body |-> b, sentiment |-> s]

SampleComments ==
    { Comment("c1", <<"M","o","d","B","o","t">>, "be civil", 0),
      Comment("c2", <<"t","r","a","d","e","r","4","2">>, "to the moon", 50),
      Comment("c3", <<"A","u","t","o","M","o","d","e","r","a","t","o","r">>, "rules", 10),
      Comment("c4", <<"a","p","e">>, "[deleted]", -20),
      Comment("c5", <<"N","i","m","r","o","d">>, " [deleted]", -10),
      Comment("c6", <<"D","i","a","m","o","n","d","H","a","n","d","s">>, "[removed]", 15) }

(* Sequences of comments with pairwise different ids, up to MaxTopComments. *)
CommentSeqs ==
    UNION { { cs \in [1..n -> SampleComments] :
                \A i, j \in 1..n : i # j => cs[i].id # cs[j].id } : n \in 0..MaxTopComments }

Post(cs) == [id |-> "t3_abc", sentiment |-> 12, num_comments |-> 25, top_comments |-> cs]
NoPost == [id |-> "", sentiment |-> 0, num_comments |-> 0, top_comments |-> <<>>]

Posts == { Post(cs) : cs \in CommentSeqs }

(* JSON values res.json() can resolve with. *)
JsonNull == [k |-> "null", detail |-> Undefined, post |-> NoPost]
JsonObject(d, p) == [k |-> "object", detail |-> d, post |-> p]

(* Response bodies: no body, text that is not JSON, or JSON text. *)
EmptyBody == [k |-> "empty", json |-> JsonNull]
TextBody == [k |-> "text", json |-> JsonNull]
JsonBody(j) == [k |-> "json", json |-> j]

DetailValues == {Undefined, Str(""), Str("post not found"), ArrayVal}

OkResponses ==
    { [ok |-> TRUE, body |-> b] :
        b \in { JsonBody(JsonObject(Undefined, p)) : p \in Posts } \cup {JsonBody(JsonNull), TextBody} }

ErrorResponses ==
    { [ok |-> FALSE, body |-> b] :
        b \in { JsonBody(JsonObject(d, NoPost)) : d \in DetailValues }
              \cup {JsonBody(JsonNull), TextBody, EmptyBody} }

Responses == OkResponses \cup ErrorResponses
NoResponse == [ok |-> FALSE, body |-> EmptyBody]

(* Values a rejected fetch can carry: an Error, or a thrown non-Error value. *)
FetchFailures == {ErrorObj("Failed to fetch"), Str("boom"), Null}

(* What res.json() throws on a body that is not JSON. *)
SyntaxErrorOf(b) ==
    IF b.k = "empty" THEN ErrorObj("Unexpected end of JSON input")
    ELSE ErrorObj("Unexpected token I in JSON at position 0")

NullDetailError == ErrorObj("Cannot read properties of null (reading 'detail')")

(***************************************************************************)
(* A pending invocation of fetchSentiment: suspended at await fetch        *)
(* (phase "fetch") or at await res.json() (phase "json").  endpoint and    *)
(* query are the request it sent; subUrl and subMax record the url and     *)
(* maxComments state at the moment of the submit.                          *)
(*                                                                         *)
(* History variables, read by no handler: issued counts the calls of fetch, *)
(* submits the submit events that passed the validation, owner is the id   *)
(* of the request whose outcome the view shows (0 when none), cleared says *)
(* what the latest submit event found in data and error and wiped.         *)
(***************************************************************************)
Request(i, p, u, n) ==
    [id |-> i, phase |-> "fetch", res |-> NoResponse,
     endpoint |-> Endpoint(p), query |-> QueryString(u, n), subUrl |-> u, subMax |-> n]

(* lines 32-36: the initial state of the component. *)
InitialMaxComments == 50

Init ==
    /\ page \in Pages
    /\ url = <<>>
    /\ maxComments = InitialMaxComments
    /\ data = JsonNull
    /\ loading = FALSE
    /\ error = Null
    /\ inflight = {}
    /\ issued = 0
    /\ submits = 0
    /\ owner = 0
    /\ cleared = [data |-> FALSE, error |-> FALSE]

(* An onChange handler that also gives up the request in flight. *)
SetUrlAbandoning(u) ==
    /\ url' = u
    /\ inflight' = {}
    /\ loading' = FALSE
    /\ UNCHANGED <<page, maxComments, data, error, issued, submits, owner, cleared>>

(* lines 98 and 117: the onChange handlers of the two inputs. *)
SetUrl(u) ==
    /\ url' = u
    /\ UNCHANGED <<page, maxComments, data, loading, error, inflight, issued, submits, owner, cleared>>

SetMaxComments(n) ==
    /\ maxComments' = n
    /\ UNCHANGED <<page, url, data, loading, error, inflight, issued, submits, owner, cleared>>

(* A button that stays disabled once an error is on show. *)
ButtonDisabledAfterError == loading \/ url = <<>> \/ error # Null

(* The button without the loading disjunct. *)
ButtonDisabledOnEmptyOnly == url = <<>>

(* line 125: disabled={loading || !url}. *)
ButtonDisabled == loading \/ url = <<>>

(* The setters of lines 40 and 41 left out. *)
KeptError == error
KeptData == data

(* line 40: setError(null); line 41: setData(null). *)
ClearedError == Null
ClearedData == JsonNull

(***************************************************************************)
(* lines 38-55: the submit event runs fetchSentiment up to await fetch.    *)
(* The three setters and, on the early return, the two that follow are     *)
(* batched into one render.  The event reaches the handler only through    *)
(* the submit button (a disabled default button also blocks implicit       *)
(* submission of the form).  The browser's own checks of the form fields   *)
(* (required, type="url") can only withhold further submit events; they    *)
(* are not modelled.  The guard on issued bounds the run.                  *)
(***************************************************************************)
Submit ==
    /\ ~ButtonDisabled
    /\ owner' = 0
    /\ cleared' = [data |-> data # JsonNull, error |-> error # Null]
    /\ data' = ClearedData
    /\ IF ValidationFails(url)
       THEN /\ error' = Str(ValidationMessage)
            /\ loading' = FALSE
            /\ UNCHANGED <<inflight, issued, submits>>
       ELSE /\ issued < MaxRequests
            /\ error' = ClearedError
            /\ loading' = TRUE
            /\ submits' = submits + 1
            /\ issued' = issued + 1
            /\ inflight' = inflight \cup {Request(issued + 1, page, url, maxComments)}
    /\ UNCHANGED <<page, url, maxComments>>

(***************************************************************************)
(* lines 62-67 / part_001 lines 55-56: the catch clause.  set is FALSE     *)
(* when the clause itself throws before calling setError (part_001 reads   *)
(* e.message of a thrown null).                                            *)
(***************************************************************************)
Catch(p, e) ==
    IF p = "page"
    THEN [set |-> TRUE,
          val |-> IF e.t = "Error" THEN Str(e.v) ELSE Str(ToStringJS(e))]
    ELSE IF e.t = "Error" THEN [set |-> TRUE, val |-> Str(e.v)]
    ELSE IF e.t \in {"null", "undefined"} THEN [set |-> FALSE, val |-> Null]
    ELSE [set |-> TRUE, val |-> Undefined]

(* The handler without its finally clause. *)
NoFinally == loading

(* lines 68-70: finally { setLoading(false) }. *)
Finally == FALSE

(* The handler ends by the catch clause with the thrown value e. *)
EndByCatch(r, e) ==
    /\ error' = (IF Catch(page, e).set THEN Catch(page, e).val ELSE error)
    /\ loading' = Finally
    /\ owner' = r.id
    /\ inflight' = inflight \ {r}
    /\ UNCHANGED <<page, url, maxComments, data, issued, submits, cleared>>

(* lines 51-55: fetch resolves with a response; lines 57 and 60 then       *)
(* suspend the handler at res.json().                                      *)
FetchResolve(r, res) ==
    /\ r \in inflight
    /\ r.phase = "fetch"
    /\ inflight' = (inflight \ {r}) \cup {[r EXCEPT !.phase = "json", !.res = res]}
    /\ UNCHANGED <<page, url, maxComments, data, loading, error, issued, submits, owner, cleared>>

(* A catch clause that calls fetch again instead of reporting. *)
FetchRejectThenRetry(r, e) ==
    /\ r \in inflight
    /\ r.phase = "fetch"
    /\ issued < MaxRequests
    /\ issued' = issued + 1
    /\ inflight' = (inflight \ {r}) \cup {Request(issued + 1, page, r.subUrl, r.subMax)}
    /\ UNCHANGED <<page, url, maxComments, data, loading, error, submits, owner, cleared>>

(* lines 51-55, 62-70: fetch rejects. *)
FetchReject(r, e) ==
    /\ r \in inflight
    /\ r.phase = "fetch"
    /\ EndByCatch(r, e)

(* The throw of line 58 with the fallback alone. *)
ThrownForBodyGenericOnly(err) == ErrorObj(GenericFailure)

(* line 58: the value thrown for a non-success response whose body parsed. *)
ThrownForBody(err) ==
    IF err.k = "null" THEN NullDetailError
    ELSE ErrorObj(IF Truthy(err.detail) THEN ToStringJS(err.detail) ELSE GenericFailure)

(* A continuation that stores the post without its comments. *)
JsonResolveDroppingComments(r) ==
    /\ r \in inflight
    /\ r.phase = "json"
    /\ r.res.body.k = "json"
    /\ r.res.ok
    /\ data' = [r.res.body.json EXCEPT !.post.top_comments = <<>>]
    /\ loading' = FALSE
    /\ owner' = r.id
    /\ inflight' = inflight \ {r}
    /\ UNCHANGED <<page, url, maxComments, error, issued, submits, cleared>>

(* lines 56-61, 68-70: res.json() resolves.  The setters of one            *)
(* continuation are applied in one render (React 18 batches them).         *)
JsonResolve(r) ==
    /\ r \in inflight
    /\ r.phase = "json"
    /\ r.res.body.k = "json"
    /\ IF ~r.res.ok
       THEN EndByCatch(r, ThrownForBody(r.res.body.json))
       ELSE /\ data' = r.res.body.json
            /\ loading' = Finally
            /\ owner' = r.id
            /\ inflight' = inflight \ {r}
            /\ UNCHANGED <<page, url, maxComments, error, issued, submits, cleared>>

(* lines 57/60, 62-70: res.json() rejects. *)
JsonReject(r) ==
    /\ r \in inflight
    /\ r.phase = "json"
    /\ r.res.body.k # "json"
    /\ EndByCatch(r, SyntaxErrorOf(r.res.body))

(***************************************************************************)
(* Rendering of data.top_comments (lines 157-183; part_001 lines 116-134). *)
(* The map callback of page.tsx returns null for a comment it hides and    *)
(* React renders nothing for a null child; the callback of part_001        *)
(* returns an item for every comment.                                      *)
(***************************************************************************)
ListItem(k, cls, c) == [key |-> k, className |-> cls, comment |-> c, shown |-> TRUE]
NoItem == [key |-> "", className |-> "", comment |-> Comment("", <<>>, "", 0), shown |-> FALSE]

(* The thresholds of lines 163 and 165 taken inclusively. *)
SentimentClassInclusive(p, sentiment) ==
    IF p = "page"
    THEN (IF sentiment >= 10 THEN "bg-green-900 border-green-600"
          ELSE IF sentiment <= -10 THEN "bg-red-900 border-red-600"
          ELSE "bg-gray-800 border-gray-700")
    ELSE (IF sentiment >= 10 THEN "bg-green-100 border-green-300"
          ELSE IF sentiment <= -10 THEN "bg-red-100 border-red-300"
          ELSE "bg-gray-100 border-gray-300")

(* lines 162-167 / part_001 lines 119-125; 0.1 is 10 hundredths. *)
SentimentClass(p, sentiment) ==
    IF p = "page"
    THEN (IF sentiment > 10 THEN "bg-green-900 border-green-600"
          ELSE IF sentiment < -10 THEN "bg-red-900 border-red-600"
          ELSE "bg-gray-800 border-gray-700")
    ELSE (IF sentiment > 10 THEN "bg-green-100 border-green-300"
          ELSE IF sentiment < -10 THEN "bg-red-100 border-red-300"
          ELSE "bg-gray-100 border-gray-300")

MapComment(p, comment) ==
    IF p = "page" /\ ModBotTest(comment.author) THEN NoItem
    ELSE IF p = "page" /\ (comment.body = "[deleted]" \/ comment.body = "[removed]") THEN NoItem
    ELSE ListItem(comment.id, SentimentClass(p, comment.sentiment), comment)

MapComments(p, cs) == [i \in 1..Len(cs) |-> MapComment(p, cs[i])]

RECURSIVE RenderedItems(_)
RenderedItems(items) ==
    IF items = <<>> THEN <<>>
    ELSE (IF Head(items).shown THEN <<Head(items)>> ELSE <<>>) \o RenderedItems(Tail(items))

(* line 138: {data && ...}: the list on screen, empty when there is no data. *)
CommentList ==
    IF data.k = "null" THEN <<>> ELSE RenderedItems(MapComments(page, data.post.top_comments))

(* A header that counts the comments on screen instead. *)
HeaderCountsShown == Len(CommentList)

(* line 143 / part_001 line 109: the count in the header, {data.num_comments}. *)
HeaderNumComments == data.post.num_comments

Next ==
    \/ \E u \in UrlInputs : SetUrl(u)
    \/ \E n \in LimitInputs : SetMaxComments(n)
    \/ Submit
    \/ \E r \in inflight : \E res \in Responses : FetchResolve(r, res)
    \/ \E r \in inflight : \E e \in FetchFailures : FetchReject(r, e)
    \/ \E r \in inflight : JsonResolve(r)
    \/ \E r \in inflight : JsonReject(r)

Spec == Init /\ [][Next]_vars

(***************************************************************************)
(* The same with the network answering: a pending await is eventually      *)
(* settled, by a response or a rejection of fetch and then by the outcome  *)
(* of res.json().  Nothing obliges the user to act.                        *)
(***************************************************************************)
Respond ==
    \E r \in inflight :
        \/ \E res \in Responses : FetchResolve(r, res)
        \/ \E e \in FetchFailures : FetchReject(r, e)
        \/ JsonResolve(r)
        \/ JsonReject(r)

FairSpec == Spec /\ WF_vars(Respond)

(***************************************************************************)
(* The rendering alone, over the whole domain of sentiment: the view shows *)
(* the result of a first request whose one comment, by trader42, has any   *)
(* sentiment from -1 to 1 (in hundredths), and is rendered again on every  *)
(* edit of the two inputs.                                                 *)
(***************************************************************************)
SentimentDomain == (0 - MaxSentiment)..MaxSentiment

RenderInit ==
    /\ page \in Pages
    /\ url = UrlPost
    /\ maxComments = InitialMaxComments
    /\ \E s \in SentimentDomain :
          data = JsonObject(Undefined,
                            Post(<<Comment("c2", <<"t","r","a","d","e","r","4","2">>, "to the moon", s)>>))
    /\ loading = FALSE
    /\ error = Null
    /\ inflight = {}
    /\ issued = 1
    /\ submits = 1
    /\ owner = 1
    /\ cleared = [data |-> FALSE, error |-> FALSE]

RenderNext ==
    \/ \E u \in UrlInputs : SetUrl(u)
    \/ \E n \in LimitInputs : SetMaxComments(n)

SpecRender == RenderInit /\ [][RenderNext]_vars

(***************************************************************************)
(* Properties.                                                             *)
(***************************************************************************)
HasData == data.k # "null"
HasError == error # Null

(* C1: single flight.  At most one request is outstanding at any time, and *)
(* no step taken while loading is true issues a request.                   *)
C1_SingleFlight ==
    /\ [](Cardinality(inflight) <= 1)
    /\ [][loading => issued' = issued]_vars

(* A request is outstanding while the input holds an acceptable url and    *)
(* the request bound is not exhausted: only the button stands in the way.  *)
C1_Witness ==
    /\ loading
    /\ Cardinality(inflight) = 1
    /\ ~ValidationFails(url)
    /\ issued < MaxRequests

(* C2: whenever no invocation of fetchSentiment is pending, whichever way  *)
(* the last one ended, loading is false.                                   *)
C2_LoadingCleared == inflight = {} => loading = FALSE

(* An invocation ended in the catch clause of part_001 with a thrown null: *)
(* the clause itself threw, and loading is false all the same.             *)
C2_Witness ==
    /\ page = "part_001"
    /\ owner > 0
    /\ inflight = {}
    /\ ~HasData
    /\ ~HasError
    /\ ~loading

(* C3: while loading is true, data and error are both null.                *)
C3_LoadingShowsNothing == loading => ~HasData /\ ~HasError

(* Loading after a submit that found a result and wiped it. *)
C3_Witness == loading /\ cleared.data

(* C4: a submit event is rejected with the validation message exactly when *)
(* the url has no occurrence of "reddit.com", and a rejected submit issues *)
(* no request.                                                             *)
HasRedditComAt(s, i) ==
    /\ i + 9 <= Len(s)
    /\ s[i] = "r" /\ s[i+1] = "e" /\ s[i+2] = "d" /\ s[i+3] = "d" /\ s[i+4] = "i"
    /\ s[i+5] = "t" /\ s[i+6] = "." /\ s[i+7] = "c" /\ s[i+8] = "o" /\ s[i+9] = "m"

ContainsRedditCom(s) == \E i \in 1..Len(s) : HasRedditComAt(s, i)

Rejected == error' = Str(ValidationMessage) /\ ~loading'

C4_ValidationGatesNetwork ==
    [][Submit =>
         /\ Rejected <=> ~ContainsRedditCom(url)
         /\ Rejected => issued' = issued /\ inflight' = inflight
         /\ ~Rejected => issued' = issued + 1 /\ loading']_vars

(* A rejected submit of a url that names the platform in another case. *)
C4_Witness ==
    /\ error = Str(ValidationMessage)
    /\ url = UrlCase
    /\ inflight = {}
    /\ ~loading

(* C5: data and error are never both non-null.                             *)
C5_NoStaleResultWithError == ~(HasData /\ HasError)

(* A validation failure whose submit wiped a shown result. *)
C5_Witness ==
    /\ error = Str(ValidationMessage)
    /\ cleared.data
    /\ ~HasData
    /\ ~loading

(* The invocation r of fetchSentiment ends in this step and its outcome is *)
(* what the view shows.                                                    *)
Settles(r) == r \in inflight /\ r \notin inflight' /\ owner' = r.id

ErrorBodyParsed(r) == r.phase = "json" /\ ~r.res.ok /\ r.res.body.k = "json"
ErrorBodyUnparsed(r) == r.phase = "json" /\ ~r.res.ok /\ r.res.body.k # "json"

CarriesDetail(j) == j.k = "object" /\ j.detail # Undefined

(* C6 as claimed: a non-success response whose body carries a detail field *)
(* ends in Failure with that detail as the message and loading false; a    *)
(* body that parses but carries no detail ends with the generic message.   *)
C6_AsClaimed ==
    [][\A r \in inflight :
         Settles(r) /\ ErrorBodyParsed(r) =>
           /\ ~loading'
           /\ CarriesDetail(r.res.body.json) => error' = r.res.body.json.detail
           /\ ~CarriesDetail(r.res.body.json) => error' = Str(GenericFailure)]_vars

(* What line 58 does do (C6 on the bodies it is right about): a            *)
(* non-success response whose body is a JSON object with a non-empty       *)
(* string detail ends in Failure with that detail as the message and       *)
(* loading false; a JSON object with no detail, or with an empty string as *)
(* detail, ends with the generic message and loading false.                *)
C6_DetailOrGeneric ==
    [][\A r \in inflight :
         Settles(r) /\ ErrorBodyParsed(r) /\ r.res.body.json.k = "object" =>
           LET d == r.res.body.json.detail IN
           /\ ~loading'
           /\ ~HasData'
           /\ d.t = "string" /\ d.v # "" => error' = d
           /\ d = Undefined \/ d = Str("") => error' = Str(GenericFailure)]_vars

(* The end-to-end case: the body {"detail": "post not found"} was consumed. *)
C6_Witness ==
    /\ error = Str("post not found")
    /\ owner > 0
    /\ ~loading
    /\ ~HasData

(* C7: a non-success response whose body is absent or is not JSON ends     *)
(* with the generic message "Failed to fetch sentiment".                   *)
C7_GenericOnUnparseable ==
    [][\A r \in inflight :
         Settles(r) /\ ErrorBodyUnparsed(r) => error' = Str(GenericFailure)]_vars

(***************************************************************************)
(* How the receiving end reads a query string: split at "&", split each    *)
(* part at its first "=", undo the percent escapes of the value.           *)
(***************************************************************************)
RECURSIVE SplitOn(_, _)
SplitOn(s, c) ==
    IF \A i \in 1..Len(s) : s[i] # c THEN <<s>>
    ELSE LET i == CHOOSE i \in 1..Len(s) : s[i] = c /\ \A k \in 1..(i - 1) : s[k] # c
         IN <<SubSeq(s, 1, i - 1)>> \o SplitOn(SubSeq(s, i + 1, Len(s)), c)

Unescape(h, l) ==
    CASE <<h, l>> = <<"3","A">> -> ":"
      [] <<h, l>> = <<"2","F">> -> "/"
      [] <<h, l>> = <<"3","F">> -> "?"
      [] <<h, l>> = <<"2","6">> -> "&"
      [] <<h, l>> = <<"3","D">> -> "="
      [] <<h, l>> = <<"2","5">> -> "%"
      [] <<h, l>> = <<"2","0">> -> " "
      [] OTHER -> "?"

RECURSIVE PercentDecode(_)
PercentDecode(s) ==
    IF s = <<>> THEN <<>>
    ELSE IF Head(s) = "%" /\ Len(s) >= 3
         THEN <<Unescape(s[2], s[3])>> \o PercentDecode(SubSeq(s, 4, Len(s)))
         ELSE <<Head(s)>> \o PercentDecode(Tail(s))

ParamName(part) == Head(SplitOn(part, "="))
ParamValue(part) == PercentDecode(SubSeq(part, Len(ParamName(part)) + 2, Len(part)))

RECURSIVE ParseNumber(_)
ParseNumber(ds) ==
    IF ds = <<>> THEN 0
    ELSE 10 * ParseNumber(SubSeq(ds, 1, Len(ds) - 1))
         + (CHOOSE d \in 0..9 : Digit(d) = ds[Len(ds)])

Carries(r) ==
    LET parts == SplitOn(r.query, "&") IN
    /\ Len(parts) = 2
    /\ ParamName(parts[1]) = <<"u","r","l">>
    /\ ParamValue(parts[1]) = r.subUrl
    /\ ParamName(parts[2]) = <<"m","a","x","_","c","o","m","m","e","n","t","s">>
    /\ ParseNumber(ParamValue(parts[2])) = r.subMax

(* C8: the requests issued are as many as the submits that passed the      *)
(* validation (none without a submit, none repeated after a failure), and  *)
(* each carries the url and the limit the state held at its submit.        *)
C8_OneRequestPerSubmit ==
    /\ issued = submits
    /\ \A r \in inflight : Carries(r)

(* A second request after a failed first one, sent for a url with "&" and  *)
(* "=" in it and a limit the user changed.                                 *)
C8_Witness ==
    /\ issued = 2
    /\ cleared.error
    /\ \E r \in inflight : r.id = 2 /\ r.subUrl = UrlAmp /\ r.subMax = 10

(* C9: the outcome shown after a resolution is that of the most recently   *)
(* issued request, and every response consumed is that request's.          *)
C9_LatestRequestOwnsOutcome ==
    /\ [](owner # 0 => owner = issued)
    /\ [][\A r \in inflight : Settles(r) => r.id = issued']_vars

(* The second request's result is on show. *)
C9_Witness == owner = 2 /\ issued = 2 /\ HasData /\ cleared.data

(* Whether the claim's rule drops comment c. *)
HasLettersAt(a, i, l1, l2, l3) ==
    /\ i + 2 <= Len(a)
    /\ a[i] \in l1 /\ a[i + 1] \in l2 /\ a[i + 2] \in l3

NoiseAuthor(a) ==
    \E i \in 1..Len(a) :
        \/ HasLettersAt(a, i, {"m","M"}, {"o","O"}, {"d","D"})
        \/ HasLettersAt(a, i, {"b","B"}, {"o","O"}, {"t","T"})

Dropped(c) == NoiseAuthor(c.author) \/ c.body \in {"[deleted]", "[removed]"}

KeptPositions(cs) == {i \in 1..Len(cs) : ~Dropped(cs[i])}

NthKept(cs, n) ==
    CHOOSE i \in KeptPositions(cs) : Cardinality({k \in KeptPositions(cs) : k < i}) = n - 1

(* C10: the comments on screen are exactly the comments of top_comments    *)
(* whose author has no "mod" or "bot" in any letter case and whose body is *)
(* neither "[deleted]" nor "[removed]", in the order of top_comments.      *)
C10_FilterDropsExactlyNoise ==
    HasData =>
        LET cs == data.post.top_comments IN
        /\ Len(CommentList) = Cardinality(KeptPositions(cs))
        /\ \A n \in 1..Len(CommentList) : CommentList[n].comment = cs[NthKept(cs, n)]

(* The same for the view of page.tsx (and of part_000) alone. *)
C10_FilterOfPage == page = "page" => C10_FilterDropsExactlyNoise

(* page.tsx shows one comment of two, the other being AutoModerator's. *)
C10_PageWitness ==
    /\ page = "page"
    /\ HasData
    /\ Len(data.post.top_comments) = 2
    /\ Len(CommentList) = 1
    /\ data.post.top_comments[1].id = "c3"

(***************************************************************************)
(* The bucket a list item's styling stands for.                            *)
(***************************************************************************)
BucketOf(cls) ==
    CASE cls \in {"bg-green-900 border-green-600", "bg-green-100 border-green-300"} -> "Positive"
      [] cls \in {"bg-red-900 border-red-600", "bg-red-100 border-red-300"} -> "Negative"
      [] cls \in {"bg-gray-800 border-gray-700", "bg-gray-100 border-gray-300"} -> "Neutral"
      [] OTHER -> "none"

(* C11: every comment on screen is Positive exactly when its sentiment is  *)
(* above 0.1, Negative exactly when it is below -0.1 and Neutral otherwise *)
(* (so at 0.1 and at -0.1); each has one of the three buckets.             *)
C11_ClassifierThresholds ==
    \A n \in 1..Len(CommentList) :
        LET s == CommentList[n].comment.sentiment
            b == BucketOf(CommentList[n].className)
        IN /\ b \in {"Positive", "Negative", "Neutral"}
           /\ b = "Positive" <=> s > 10
           /\ b = "Negative" <=> s < -10
           /\ b = "Neutral" <=> (-10 <= s /\ s <= 10)

(* A comment with sentiment exactly 0.1 is on screen in page.tsx, Neutral. *)
C11_Witness ==
    /\ page = "page"
    /\ Len(CommentList) = 1
    /\ CommentList[1].comment.sentiment = 10
    /\ BucketOf(CommentList[1].className) = "Neutral"
    /\ url # UrlPost

(* The bucket the claim's rule gives a sentiment (in hundredths). *)
ClaimedBucket(s) == IF s > 10 THEN "Positive" ELSE IF s < -10 THEN "Negative" ELSE "Neutral"

(* C12: in the Success state the list on screen is the top_comments of the *)
(* latest response without the noise comments, in their order, each with   *)
(* the bucket of its sentiment.                                            *)
C12_RenderedIsFilteredAndClassified ==
    HasData =>
        LET cs == data.post.top_comments IN
        /\ owner = issued
        /\ Len(CommentList) = Cardinality(KeptPositions(cs))
        /\ \A n \in 1..Len(CommentList) :
              /\ CommentList[n].comment = cs[NthKept(cs, n)]
              /\ CommentList[n].key = cs[NthKept(cs, n)].id
              /\ BucketOf(CommentList[n].className) = ClaimedBucket(cs[NthKept(cs, n)].sentiment)

(* The same for the view of page.tsx (and of part_000) alone. *)
C12_RenderedOfPage == page = "page" => C12_RenderedIsFilteredAndClassified

(* The end-to-end case in page.tsx: of a comment by ModBot and one by      *)
(* trader42 with sentiment 0.5, the second alone is on screen, Positive.   *)
C12_PageWitness ==
    /\ page = "page"
    /\ HasData
    /\ Len(data.post.top_comments) = 2
    /\ data.post.top_comments[1].id = "c1"
    /\ data.post.top_comments[2].id = "c2"
    /\ Len(CommentList) = 1
    /\ CommentList[1].key = "c2"
    /\ BucketOf(CommentList[1].className) = "Positive"

WellFormedSuccess(r) ==
    r.phase = "json" /\ r.res.ok /\ r.res.body.k = "json" /\ r.res.body.json.k = "object"

(* C13: when a successful response is consumed, the count in the header is *)
(* the response's num_comments and the stored top_comments are the         *)
(* response's, whatever the list leaves out; and as long as the result     *)
(* stays on screen no step changes either.                                 *)
C13_FilteringIsPresentationOnly ==
    [][/\ \A r \in inflight :
            Settles(r) /\ WellFormedSuccess(r) =>
               /\ HeaderNumComments' = r.res.body.json.post.num_comments
               /\ data'.post.top_comments = r.res.body.json.post.top_comments
       /\ HasData /\ HasData' =>
            /\ HeaderNumComments' = HeaderNumComments
            /\ data'.post.top_comments = data.post.top_comments]_vars

(* page.tsx shows fewer comments than it stores, under the response's count. *)
C13_Witness ==
    /\ page = "page"
    /\ HasData
    /\ Len(CommentList) < Len(data.post.top_comments)
    /\ HeaderNumComments = Post(<<>>).num_comments
    /\ HeaderNumComments # Len(CommentList)

(* The bound on the number of requests does not stand in the way. *)
WithinRequestBound == issued < MaxRequests

C15_SuccessHoldsTheResponse ==
    [][\A r \in inflight :
         Settles(r) /\ WellFormedSuccess(r) =>
            /\ loading /\ ~loading'
            /\ error' = Null
            /\ data' = r.res.body.json
            /\ data'.post \in Posts]_vars

(* A second result on show, with fewer comments than a post can have,      *)
(* after a submit that wiped an earlier result.                            *)
C15_Witness ==
    /\ HasData
    /\ cleared.data
    /\ owner = 2
    /\ ~loading
    /\ error = Null
    /\ Len(data.post.top_comments) = 1

(* The description the claim expects of a failure without a response: an   *)
(* Error's own message, any other thrown value's string representation.    *)
Described(e) ==
    CASE e.t = "Error" -> e.v
      [] e.t = "string" -> e.v
      [] e.t = "null" -> "null"
      [] e.t = "undefined" -> "undefined"

SurfacedVerbatim(r, e) ==
    FetchReject(r, e) => ~loading' /\ ~HasData' /\ error' = Str(Described(e))

(* C16: when fetch rejects, the state is Failure with the failure's own    *)
(* description as the message if it is an Error, and with the string       *)
(* representation of the thrown value if it is not.                        *)
C16_FailureSurfacedVerbatim ==
    [][\A r \in inflight : \A e \in FetchFailures : SurfacedVerbatim(r, e)]_vars

(* The same for the view of page.tsx (and of part_000) alone. *)
C16_SurfacedOfPage ==
    [][page = "page" => \A r \in inflight : \A e \in FetchFailures : SurfacedVerbatim(r, e)]_vars

(* page.tsx shows a thrown null as the text "null". *)
C16_PageWitness == page = "page" /\ error = Str("null") /\ ~loading /\ owner > 0

Success == ~loading /\ HasData /\ error = Null
Failure == ~loading /\ ~HasData /\ error.t = "string"

(* C17: with the network answering, a Loading state is always followed by  *)
(* a state that is Success or Failure, with loading false.                 *)
C17_LoadingEndsInSuccessOrFailure == loading ~> (Success \/ Failure)

(* What does hold: with the network answering, a Loading state is always   *)
(* followed by a state with loading false and no invocation pending.       *)
C17_LoadingEnds == loading ~> (~loading /\ inflight = {})

(* A submission has reached a terminal outcome: a request was consumed, or *)
(* the latest submit was rejected by the validation.                       *)
SubmissionCompleted == owner > 0 \/ error = Str(ValidationMessage)

(* C18: once a submission has completed and while loading is false,        *)
(* exactly one of data and error holds a value.                            *)
C18_ExactlyOneOfDataAndError ==
    ~loading /\ SubmissionCompleted =>
        \/ HasData /\ error \in {Null, Undefined}
        \/ ~HasData /\ error \notin {Null, Undefined}

(* The same for page.tsx (and part_000) when a successful response is a    *)
(* JSON object: the only other case is the body null.                      *)
C18_OfPageButNullBody ==
    ~loading /\ SubmissionCompleted /\ page = "page" =>
        \/ HasData /\ error = Null
        \/ ~HasData /\ error \notin {Null, Undefined}
        \/ ~HasData /\ error = Null /\ owner > 0

(* C19: a step that edits the url or the limit while loading is true       *)
(* changes nothing else: loading, data, error and the request in flight,   *)
(* with the query it carries, stay as they are; and the response consumed  *)
(* afterwards is still that of the request as it was sent.                 *)
C19_EditsWhileLoadingTouchOnlyInputs ==
    /\ [][loading /\ (url' # url \/ maxComments' # maxComments) =>
            /\ loading' /\ data' = data /\ error' = error
            /\ inflight' = inflight
            /\ issued' = issued /\ owner' = owner]_vars
    /\ [](\A r \in inflight : r.query = QueryString(r.subUrl, r.subMax))
    /\ [](loading => inflight # {})

(* Both inputs were edited while the request, sent for the earlier url and *)
(* limit, is awaiting res.json().                                          *)
C19_Witness ==
    /\ loading
    /\ \E r \in inflight :
         /\ r.phase = "json"
         /\ r.subUrl # url
         /\ r.subMax # maxComments
         /\ ValidationFails(url)

====
